---- MODULE Spec2Model ----
(***************************************************************************)
(* ClassroomBank: the ledger-mutating REST handlers of registerRoutes and  *)
(* the DatabaseStorage calls they make.  Every handler is a sequence of    *)
(* storage calls; each `await storage.x(...)` is one atomic database       *)
(* statement and a point where another request's handler may run.          *)
(***************************************************************************)
EXTENDS Integers, Sequences, FiniteSets, TLC

(* ---------------------------------------------------------------------- *)
(* Bounds                                                                  *)
(* ---------------------------------------------------------------------- *)
MaxTx == 2          \* a request that may insert a row starts only while Len(transactions) < MaxTx
MaxRequests == 1    \* rows of withdrawal_requests
MaxBalance == 200   \* a mutating request starts only while |balance| <= MaxBalance (cents)
MaxTime == 1        \* ticks of the wall clock read by `new Date()`
MaxActions == 1     \* rows ever inserted into custom_quick_actions
MaxAccounts == 4    \* upsertUser starts only while Len(accounts) < MaxAccounts

Procs == {"h1", "h2"}   \* request handlers in flight at the same time

(* ---------------------------------------------------------------------- *)
(* Users (rows of `users`; the identity provider supplies the caller)      *)
(* ---------------------------------------------------------------------- *)
Teachers == {"t1", "t2"}
StudentOrder == <<"s1", "s2">>      \* orderBy(users.firstName, users.lastName)
Students == {StudentOrder[i] : i \in 1..Len(StudentOrder)}
Users == Teachers \cup Students

role(u) == IF u \in Teachers THEN "teacher" ELSE "student"

\* accounts.id (serial) of the account row of a student
accountIdOf(u) == CHOOSE i \in 1..Len(StudentOrder) : StudentOrder[i] = u
AccountIds == 1..Len(StudentOrder)
userOf(a) == StudentOrder[a]

(* ---------------------------------------------------------------------- *)
(* Numbers and decimal text                                                *)
(* A JS number is a count of cents, or NaN.  A decimal text is the number  *)
(* of leading '-' signs followed by a body: digits "d.dd" (cents), the     *)
(* text "NaN", or text that is no number at all.                           *)
(* ---------------------------------------------------------------------- *)
NaN == 0 - 1000000
isNaN(x) == x = NaN

Text(m, k, c) == [minus |-> m, kind |-> k, cents |-> c]

parseFloat(s) ==
    IF s.kind = "digits" /\ s.minus = 0 THEN s.cents
    ELSE IF s.kind = "digits" /\ s.minus = 1 THEN 0 - s.cents
    ELSE NaN

toFixed2(x) ==
    IF isNaN(x) THEN Text(0, "NaN", 0)
    ELSE IF x < 0 THEN Text(1, "digits", 0 - x)
    ELSE Text(0, "digits", x)

\* the template literal `-${s}`
Negated(s) == [s EXCEPT !.minus = s.minus + 1]

\* PostgreSQL's input conversion of a text to decimal(10,2)
IsNumeric(s) ==
    \/ s.kind = "digits" /\ s.minus <= 1
    \/ s.kind = "NaN" /\ s.minus = 0
ToNumeric(s) ==
    IF s.kind = "NaN" THEN NaN
    ELSE IF s.minus = 1 THEN 0 - s.cents
    ELSE s.cents
\* the text the driver returns for a decimal column
NumericOut(x) == toFixed2(x)

Plus(a, b) == IF isNaN(a) \/ isNaN(b) THEN NaN ELSE a + b
Minus(a, b) == IF isNaN(a) \/ isNaN(b) THEN NaN ELSE a - b
Gt(a, b) == ~isNaN(a) /\ ~isNaN(b) /\ a > b
Lt(a, b) == ~isNaN(a) /\ ~isNaN(b) /\ a < b
MathMax(a, b) == IF isNaN(a) \/ isNaN(b) THEN NaN ELSE IF a > b THEN a ELSE b

\* amount strings a request body may carry: "1.00", "2.00", "-1.00", "abc"
AmountInputs ==
    { Text(0, "digits", 100), Text(0, "digits", 200),
      Text(1, "digits", 100), Text(0, "junk", 0) }

(* ---------------------------------------------------------------------- *)
(* State                                                                   *)
(* ---------------------------------------------------------------------- *)
VARIABLES
    balance,        \* accounts.balance, by users.id of the owning student
    transactions,   \* rows of `transactions`, in insertion (id) order
    requests,       \* rows of `withdrawal_requests`, in insertion (id) order
    now,            \* the wall clock at its latest reading by `new Date()`
    pc,             \* per handler: the storage call it is about to make
    req,            \* per handler: route, caller and request body
    loc,            \* per handler: its local constants
    res,            \* per handler: the response it sent
    customActions,  \* rows of `custom_quick_actions`, in insertion (id) order
    accounts        \* rows of `accounts` in insertion (id) order: the user_id column

vars == <<balance, transactions, requests, now, pc, req, loc, res, customActions, accounts>>
store == <<balance, transactions, requests>>

NoReq == [route |-> "none"]
NoLoc == [none |-> TRUE]
NoRes == [status |-> 0, message |-> ""]
Response(code, msg) == [status |-> code, message |-> msg]

Init ==
    /\ balance = [s \in Students |-> 0]
    /\ transactions = <<>>
    /\ requests = <<>>
    /\ now = 0
    /\ pc = [p \in Procs |-> "idle"]
    /\ req = [p \in Procs |-> NoReq]
    /\ loc = [p \in Procs |-> NoLoc]
    /\ res = [p \in Procs |-> NoRes]
    /\ customActions = <<>>
    /\ accounts = StudentOrder

Free(p) == pc[p] \in {"idle", "done"}

\* guards that keep the explored state space finite
BalancesWithinBounds ==
    \A s \in Students :
        isNaN(balance[s]) \/ (balance[s] <= MaxBalance /\ balance[s] >= 0 - MaxBalance)

WithinBounds ==
    /\ Len(transactions) < MaxTx
    /\ BalancesWithinBounds

\* a handler starts: the request is recorded, the response is open
Begin(p, r, next) ==
    /\ Free(p)
    /\ req' = [req EXCEPT ![p] = r]
    /\ loc' = [loc EXCEPT ![p] = NoLoc]
    /\ res' = [res EXCEPT ![p] = NoRes]
    /\ pc' = [pc EXCEPT ![p] = next]

\* a handler responds and ends; the exchange (request, response) stays on
\* record until the handler takes its next request, its locals are gone
Reply(p, r) ==
    /\ res' = [res EXCEPT ![p] = r]
    /\ pc' = [pc EXCEPT ![p] = "done"]
    /\ loc' = [loc EXCEPT ![p] = NoLoc]
    /\ UNCHANGED req

\* a handler refuses a request on a check it makes before any storage call;
\* r holds what it has read of the request by then
Refuse(p, r, response) ==
    /\ Free(p)
    /\ req' = [req EXCEPT ![p] = r]
    /\ res' = [res EXCEPT ![p] = response]
    /\ pc' = [pc EXCEPT ![p] = "done"]
    /\ loc' = [loc EXCEPT ![p] = NoLoc]

\* a handler goes on to its next storage call with locals l
Goto(p, next, l) ==
    /\ pc' = [pc EXCEPT ![p] = next]
    /\ loc' = [loc EXCEPT ![p] = l]
    /\ UNCHANGED <<req, res>>

\* storage.updateAccountBalance(userId, newBalance)
updateAccountBalance(userId, newBalance) ==
    balance' = [balance EXCEPT ![userId] = ToNumeric(newBalance)]

\* mutant: the new row takes the place of the log
createTransactionReplaces(accountId, type, amount, description) ==
    transactions' = <<[accountId |-> accountId, type |-> type,
                       amount |-> ToNumeric(amount), description |-> description]>>

\* storage.createTransaction({accountId, type, amount, description, createdBy})
createTransaction(accountId, type, amount, description) ==
    transactions' = Append(transactions,
        [accountId |-> accountId, type |-> type, amount |-> ToNumeric(amount),
         description |-> description])

(* ---------------------------------------------------------------------- *)
(* POST /api/adjust-balance                                                *)
(* ---------------------------------------------------------------------- *)
\* getUser(userId), the role check, the body parse and getUser(studentId);
\* rows of `users` never change, so these reads are taken with the start
AdjustBalance(p, In) ==
    \E caller \in In.users, studentId \in In.users, amount \in In.amounts,
       type \in {"add", "subtract"} :
        /\ WithinBounds
        /\ LET r == [route |-> "adjust-balance", userId |-> caller,
                      studentId |-> studentId, amount |-> amount, type |-> type]
           IN  IF role(caller) # "teacher"
                 THEN Refuse(p, [route |-> "adjust-balance", userId |-> caller],
                             Response(403, "Only teachers can adjust balances"))
                 ELSE IF role(studentId) # "student"
                   THEN Refuse(p, r, Response(404, "Student not found"))
                   ELSE Begin(p, r, "adjust_getAccount")
        /\ UNCHANGED <<balance, transactions, requests, now, customActions, accounts>>

\* mutant: both branches of the ternary add
AdjustNewBalanceAlwaysAdds(type, currentBalance, adjustmentAmount) ==
    toFixed2(Plus(currentBalance, adjustmentAmount))

AdjustNewBalance(type, currentBalance, adjustmentAmount) ==
    IF type = "add"
      THEN toFixed2(Plus(currentBalance, adjustmentAmount))
      ELSE toFixed2(Minus(currentBalance, adjustmentAmount))

AdjustRejects(newBalance) == Lt(parseFloat(newBalance), 0)

\* getAccount(studentId), then the computation up to the next await
AdjustGetAccount(p) ==
    /\ pc[p] = "adjust_getAccount"
    /\ LET currentBalance == parseFloat(NumericOut(balance[req[p].studentId]))
           adjustmentAmount == parseFloat(req[p].amount)
           newBalance == AdjustNewBalance(req[p].type, currentBalance, adjustmentAmount)
       IN  IF AdjustRejects(newBalance)
             THEN Reply(p, Response(400, "Balance cannot be negative"))
             ELSE Goto(p, "adjust_updateAccountBalance",
                       [currentBalance |-> currentBalance, newBalance |-> newBalance])
    /\ UNCHANGED <<balance, transactions, requests, now, customActions, accounts>>

AdjustUpdateAccountBalance(p) ==
    /\ pc[p] = "adjust_updateAccountBalance"
    /\ updateAccountBalance(req[p].studentId, loc[p].newBalance)
    /\ Goto(p, "adjust_createTransaction", loc[p])
    /\ UNCHANGED <<transactions, requests, now, customActions, accounts>>

\* mutant: the recorded amount never gets its sign
AdjustTxAmountUnsigned(type, amount) == amount

AdjustTxAmount(type, amount) == IF type = "add" THEN amount ELSE Negated(amount)

AdjustCreateTransaction(p) ==
    /\ pc[p] = "adjust_createTransaction"
    /\ LET amount == AdjustTxAmount(req[p].type, req[p].amount)
       IN  IF IsNumeric(amount)
             THEN /\ createTransaction(accountIdOf(req[p].studentId),
                                       IF req[p].type = "add" THEN "bonus" ELSE "withdrawal",
                                       amount, "description")
                  /\ Reply(p, Response(200, "Balance adjusted successfully"))
             ELSE /\ UNCHANGED transactions
                  /\ Reply(p, Response(500, "Failed to adjust balance"))
    /\ UNCHANGED <<balance, requests, now, customActions, accounts>>

(* ---------------------------------------------------------------------- *)
(* POST /api/withdrawal-requests                                           *)
(* ---------------------------------------------------------------------- *)
\* request bodies: {amount, reason} as the client sends it, or with an
\* accountId, or with an accountId and a status
WithdrawalBodies(Amounts) ==
    [amount : Amounts] \cup [amount : Amounts, accountId : AccountIds]
        \cup [amount : Amounts, accountId : AccountIds, status : {"approved"}]

CreateWithdrawalRequest(p, In) ==
    \E caller \in In.users, body \in WithdrawalBodies(In.amounts) :
        /\ Len(requests) < MaxRequests
        /\ LET r == [route |-> "withdrawal-requests", userId |-> caller, body |-> body]
           IN  IF role(caller) # "student"
                 THEN Refuse(p, [route |-> "withdrawal-requests", userId |-> caller],
                             Response(403, "Only students can create withdrawal requests"))
                 ELSE Begin(p, r, "create_getAccount")
        /\ UNCHANGED <<balance, transactions, requests, now, customActions, accounts>>

\* insertWithdrawalRequestSchema: accountId, amount and reason are required
insertWithdrawalRequestSchemaParses(body) == "accountId" \in DOMAIN body

\* mutant: the schema lets every key of the body through
insertWithdrawalRequestSchemaKeepsAll(body) == body

\* the parsed data: the keys of the schema; id, status, reviewedBy, reviewedAt
\* and createdAt are omitted from it and stripped from the body
insertWithdrawalRequestSchemaParse(body) ==
    [k \in (DOMAIN body) \cap {"accountId", "amount", "reason"} |-> body[k]]

CreateInsufficient(amount, accountBalance) ==
    Gt(parseFloat(amount), parseFloat(accountBalance))

\* getAccount(userId), the schema parse and the balance check
CreateGetAccount(p) ==
    /\ pc[p] = "create_getAccount"
    /\ LET account == [id |-> accountIdOf(req[p].userId),
                       balance |-> NumericOut(balance[req[p].userId])]
       IN  IF ~insertWithdrawalRequestSchemaParses(req[p].body)
             THEN Reply(p, Response(500, "Failed to create withdrawal request"))
             ELSE IF CreateInsufficient(req[p].body.amount, account.balance)
               THEN Reply(p, Response(400, "Insufficient balance"))
               ELSE Goto(p, "create_createWithdrawalRequest",
                         [accountId |-> account.id,
                          data |-> insertWithdrawalRequestSchemaParse(req[p].body)])
    /\ UNCHANGED <<balance, transactions, requests, now, customActions, accounts>>

\* storage.createWithdrawalRequest({...data, accountId: account.id}); a
\* column the values do not name takes its default (status 'pending')
CreateInsert(p) ==
    /\ pc[p] = "create_createWithdrawalRequest"
    /\ IF IsNumeric(loc[p].data.amount)
         THEN /\ requests' = Append(requests,
                    [accountId |-> loc[p].accountId,
                     amount |-> ToNumeric(loc[p].data.amount),
                     status |-> IF "status" \in DOMAIN loc[p].data
                                  THEN loc[p].data.status ELSE "pending",
                     reviewedBy |-> "null", reviewedAt |-> <<>>])
              /\ Reply(p, Response(200, "request"))
         ELSE /\ UNCHANGED requests
              /\ Reply(p, Response(500, "Failed to create withdrawal request"))
    /\ UNCHANGED <<balance, transactions, now, customActions, accounts>>

(* ---------------------------------------------------------------------- *)
(* PATCH /api/withdrawal-requests/:id                                      *)
(* ---------------------------------------------------------------------- *)
\* updateWithdrawalRequestSchema takes any string as status
StatusInputs == {"approved", "denied", "pending", "paid"}
RequestIds == 1..(MaxRequests + 1)

PatchWithdrawalRequest(p, In) ==
    \E caller \in In.users, id \in In.ids, status \in In.statuses :
        /\ status = "approved" => BalancesWithinBounds
        /\ LET r == [route |-> "patch-withdrawal-request", userId |-> caller,
                      id |-> id, status |-> status]
           IN  IF role(caller) # "teacher"
                 THEN Refuse(p, [route |-> "patch-withdrawal-request", userId |-> caller],
                             Response(403, "Only teachers can approve/deny requests"))
                 ELSE Begin(p, r, "patch_updateWithdrawalRequest")
        /\ UNCHANGED <<balance, transactions, requests, now, customActions, accounts>>

\* mutant: the update stamps the review and leaves the status column alone
updateWithdrawalRequestKeepsStatus(id, update) ==
    \E date \in now..MaxTime :
        /\ now' = date
        /\ requests' = [i \in 1..Len(requests) |->
              IF i = id
                THEN [requests[i] EXCEPT !.reviewedBy = update.reviewedBy,
                                         !.reviewedAt = <<date>>]
                ELSE requests[i]]

\* storage.updateWithdrawalRequest(id, update): UPDATE ... WHERE id = :id,
\* with reviewedAt: new Date(); the clock never runs backwards
updateWithdrawalRequest(id, update) ==
    \E date \in now..MaxTime :
        /\ now' = date
        /\ requests' = [i \in 1..Len(requests) |->
              IF i = id
                THEN [requests[i] EXCEPT !.status = update.status,
                                         !.reviewedBy = update.reviewedBy,
                                         !.reviewedAt = <<date>>]
                ELSE requests[i]]

PatchUpdate(p) ==
    /\ pc[p] = "patch_updateWithdrawalRequest"
    /\ updateWithdrawalRequest(req[p].id,
            [status |-> req[p].status, reviewedBy |-> req[p].userId])
    /\ IF req[p].status = "approved"
         THEN Goto(p, "patch_getPendingWithdrawalRequests", NoLoc)
         ELSE Reply(p, Response(200, "updatedRequest"))
    /\ UNCHANGED <<balance, transactions, customActions, accounts>>

\* storage.getPendingWithdrawalRequests(): ids of the rows WHERE status = 'pending'
getPendingWithdrawalRequests ==
    {i \in 1..Len(requests) : requests[i].status = "pending"}

PatchNewBalance(currentBalance, withdrawalAmount) ==
    toFixed2(Minus(currentBalance, withdrawalAmount))

PatchGetPending(p) ==
    /\ pc[p] = "patch_getPendingWithdrawalRequests"
    /\ IF req[p].id \in getPendingWithdrawalRequests
         THEN LET originalRequest == requests[req[p].id]
                  user == userOf(originalRequest.accountId)
                  currentBalance == parseFloat(NumericOut(balance[user]))
                  withdrawalAmount == parseFloat(NumericOut(originalRequest.amount))
              IN  Goto(p, "patch_updateAccountBalance",
                        [userId |-> user,
                         accountId |-> originalRequest.accountId,
                         amount |-> NumericOut(originalRequest.amount),
                         currentBalance |-> currentBalance,
                         newBalance |-> PatchNewBalance(currentBalance, withdrawalAmount)])
         ELSE Reply(p, Response(200, "updatedRequest"))
    /\ UNCHANGED <<balance, transactions, requests, now, customActions, accounts>>

PatchUpdateAccountBalance(p) ==
    /\ pc[p] = "patch_updateAccountBalance"
    /\ updateAccountBalance(loc[p].userId, loc[p].newBalance)
    /\ Goto(p, "patch_createTransaction", loc[p])
    /\ UNCHANGED <<transactions, requests, now, customActions, accounts>>

PatchCreateTransaction(p) ==
    /\ pc[p] = "patch_createTransaction"
    /\ LET amount == Negated(loc[p].amount)
       IN  IF IsNumeric(amount)
             THEN /\ createTransaction(loc[p].accountId, "withdrawal", amount,
                                       "Withdrawal: reason")
                  /\ Reply(p, Response(200, "updatedRequest"))
             ELSE /\ UNCHANGED transactions
                  /\ Reply(p, Response(500, "Failed to update withdrawal request"))
    /\ UNCHANGED <<balance, requests, now, customActions, accounts>>

(* ---------------------------------------------------------------------- *)
(* POST /api/distribute-paycheck                                           *)
(* ---------------------------------------------------------------------- *)
\* storage.getAllStudents(): the student rows with their account, in order
getAllStudents == [i \in 1..Len(StudentOrder) |->
    [id |-> StudentOrder[i],
     account |-> [id |-> i, balance |-> NumericOut(balance[StudentOrder[i]])]]]

DistributePaycheck(p, In) ==
    \E caller \in In.users, amount \in In.amounts :
        /\ WithinBounds
        /\ LET r == [route |-> "distribute-paycheck", userId |-> caller, amount |-> amount]
           IN  IF role(caller) # "teacher"
                 THEN Refuse(p, [route |-> "distribute-paycheck", userId |-> caller],
                             Response(403, "Only teachers can distribute paychecks"))
                 ELSE Begin(p, r, "paycheck_getAllStudents")
        /\ UNCHANGED <<balance, transactions, requests, now, customActions, accounts>>

PaycheckDone(n) ==
    [status |-> 200, message |-> "Paycheck distributed", students |-> n]

PaycheckGetAllStudents(p) ==
    /\ pc[p] = "paycheck_getAllStudents"
    /\ IF Len(getAllStudents) = 0
         THEN Reply(p, PaycheckDone(0))
         ELSE Goto(p, "paycheck_updateAccountBalance", [students |-> getAllStudents, i |-> 1])
    /\ UNCHANGED <<balance, transactions, requests, now, customActions, accounts>>

\* mutant: the paycheck is not added
PaycheckNewBalanceKeeps(currentBalance, paycheckAmount) ==
    toFixed2(currentBalance)

PaycheckNewBalance(currentBalance, paycheckAmount) ==
    toFixed2(Plus(currentBalance, paycheckAmount))

PaycheckUpdateAccountBalance(p) ==
    /\ pc[p] = "paycheck_updateAccountBalance"
    /\ LET student == loc[p].students[loc[p].i]
           currentBalance == parseFloat(student.account.balance)
           paycheckAmount == parseFloat(req[p].amount)
       IN  updateAccountBalance(student.id, PaycheckNewBalance(currentBalance, paycheckAmount))
    /\ Goto(p, "paycheck_createTransaction", loc[p])
    /\ UNCHANGED <<transactions, requests, now, customActions, accounts>>

PaycheckCreateTransaction(p) ==
    /\ pc[p] = "paycheck_createTransaction"
    /\ LET student == loc[p].students[loc[p].i]
       IN  IF IsNumeric(req[p].amount)
             THEN /\ createTransaction(student.account.id, "paycheck", req[p].amount,
                                       "Weekly Paycheck")
                  /\ IF loc[p].i = Len(loc[p].students)
                       THEN Reply(p, PaycheckDone(Len(loc[p].students)))
                       ELSE Goto(p, "paycheck_updateAccountBalance",
                                 [loc[p] EXCEPT !.i = @ + 1])
             ELSE /\ UNCHANGED transactions
                  /\ Reply(p, Response(500, "Failed to distribute paycheck"))
    /\ UNCHANGED <<balance, requests, now, customActions, accounts>>

(* ---------------------------------------------------------------------- *)
(* POST /api/collect-rent                                                  *)
(* ---------------------------------------------------------------------- *)
\* a rent finds nothing to collect and inserts no row when no balance is > 0
NothingToCollect == \A s \in Students : ~Gt(balance[s], 0)

CollectRent(p, In) ==
    \E caller \in In.users, amount \in In.amounts :
        /\ WithinBounds \/ (BalancesWithinBounds /\ NothingToCollect)
        /\ LET r == [route |-> "collect-rent", userId |-> caller, amount |-> amount]
           IN  IF role(caller) # "teacher"
                 THEN Refuse(p, [route |-> "collect-rent", userId |-> caller],
                             Response(403, "Only teachers can collect rent"))
                 ELSE Begin(p, r, "rent_getAllStudents")
        /\ UNCHANGED <<balance, transactions, requests, now, customActions, accounts>>

\* mutant: the subtraction without Math.max(0, ...)
RentNewBalanceNoClamp(currentBalance, rentAmount) ==
    toFixed2(Minus(currentBalance, rentAmount))

RentNewBalance(currentBalance, rentAmount) ==
    toFixed2(MathMax(0, Minus(currentBalance, rentAmount)))

\* mutant: the whole balance read is taken as the deduction
RentActualDeductionWholeBalance(currentBalance, newBalance) ==
    currentBalance

RentActualDeduction(currentBalance, newBalance) ==
    Minus(currentBalance, parseFloat(newBalance))

\* the loop runs without an await over the students with currentBalance <= 0
RECURSIVE RentSkip(_, _)
RentSkip(students, i) ==
    IF i > Len(students) THEN i
    ELSE IF Gt(parseFloat(students[i].account.balance), 0) THEN i
    ELSE RentSkip(students, i + 1)

\* mutant: every student is reported, as distribute-paycheck does
RentDoneReportsAll(n) ==
    [status |-> 200, message |-> "Monthly rent collected",
     studentsAffected |-> Len(StudentOrder)]

\* mutant: the count starts at one
RentDoneCountsFromOne(n) ==
    [status |-> 200, message |-> "Monthly rent collected", studentsAffected |-> n + 1]

RentDone(n) ==
    [status |-> 200, message |-> "Monthly rent collected", studentsAffected |-> n]

\* continue the loop at index i, or respond when it is over
RentContinue(p, l) ==
    IF l.i > Len(l.students)
      THEN Reply(p, RentDone(l.studentsAffected))
      ELSE Goto(p, "rent_updateAccountBalance", l)

RentGetAllStudents(p) ==
    /\ pc[p] = "rent_getAllStudents"
    /\ RentContinue(p, [students |-> getAllStudents, i |-> RentSkip(getAllStudents, 1),
                        studentsAffected |-> 0])
    /\ UNCHANGED <<balance, transactions, requests, now, customActions, accounts>>

RentUpdateAccountBalance(p) ==
    /\ pc[p] = "rent_updateAccountBalance"
    /\ LET student == loc[p].students[loc[p].i]
           currentBalance == parseFloat(student.account.balance)
           newBalance == RentNewBalance(currentBalance, parseFloat(req[p].amount))
           actualDeduction == RentActualDeduction(currentBalance, newBalance)
       IN  /\ updateAccountBalance(student.id, newBalance)
           /\ IF Gt(actualDeduction, 0)
                THEN Goto(p, "rent_createTransaction", loc[p])
                ELSE RentContinue(p, [loc[p] EXCEPT
                         !.i = RentSkip(loc[p].students, loc[p].i + 1)])
    /\ UNCHANGED <<transactions, requests, now, customActions, accounts>>

RentCreateTransaction(p) ==
    /\ pc[p] = "rent_createTransaction"
    /\ LET student == loc[p].students[loc[p].i]
           currentBalance == parseFloat(student.account.balance)
           newBalance == RentNewBalance(currentBalance, parseFloat(req[p].amount))
           actualDeduction == RentActualDeduction(currentBalance, newBalance)
       IN  /\ createTransaction(student.account.id, "rent",
                             Negated(toFixed2(actualDeduction)), "Monthly Rent")
           /\ RentContinue(p, [loc[p] EXCEPT
                  !.i = RentSkip(loc[p].students, loc[p].i + 1),
                  !.studentsAffected = @ + 1])
    /\ UNCHANGED <<balance, requests, now, customActions, accounts>>

(* ---------------------------------------------------------------------- *)
(* GET /api/transactions                                                   *)
(* ---------------------------------------------------------------------- *)
\* storage.getAccount(userId) finds a row: upsertUser creates the account row
\* of a student; a teacher has none
HasAccount(u) == \E i \in 1..Len(accounts) : accounts[i] = u

\* the handler reads no user row and makes no role check
GetTransactions(p, In) ==
    \E caller \in In.users :
        /\ Begin(p, [route |-> "transactions", userId |-> caller], "transactions_getAccount")
        /\ UNCHANGED <<balance, transactions, requests, now, customActions, accounts>>

TransactionsGetAccount(p) ==
    /\ pc[p] = "transactions_getAccount"
    /\ IF ~HasAccount(req[p].userId)
         THEN Reply(p, Response(404, "Account not found"))
         ELSE Goto(p, "transactions_getTransactionsByAccount",
                   [accountId |-> accountIdOf(req[p].userId)])
    /\ UNCHANGED <<balance, transactions, requests, now, customActions, accounts>>

\* storage.getTransactionsByAccount(accountId): WHERE account_id = :accountId
\* ORDER BY created_at DESC
getTransactionsByAccount(accountId) ==
    LET rows == SelectSeq(transactions, LAMBDA t : t.accountId = accountId)
    IN  [i \in 1..Len(rows) |-> rows[Len(rows) + 1 - i]]

TransactionsGetByAccount(p) ==
    /\ pc[p] = "transactions_getTransactionsByAccount"
    /\ Reply(p, [status |-> 200, message |-> "transactions",
                 body |-> getTransactionsByAccount(loc[p].accountId)])
    /\ UNCHANGED <<balance, transactions, requests, now, customActions, accounts>>

(* ---------------------------------------------------------------------- *)
(* GET /api/students, /api/pending-requests, /api/stats                    *)
(* ---------------------------------------------------------------------- *)
ListStudents(p, In) ==
    \E caller \in In.users :
        /\ LET r == [route |-> "students", userId |-> caller]
           IN  IF role(caller) # "teacher"
                 THEN Refuse(p, r, Response(403, "Only teachers can view all students"))
                 ELSE Begin(p, r, "students_getAllStudents")
        /\ UNCHANGED <<balance, transactions, requests, now, customActions, accounts>>

StudentsGetAllStudents(p) ==
    /\ pc[p] = "students_getAllStudents"
    /\ Reply(p, [status |-> 200, message |-> "students", body |-> getAllStudents])
    /\ UNCHANGED <<balance, transactions, requests, now, customActions, accounts>>

ListPendingRequests(p, In) ==
    \E caller \in In.users :
        /\ LET r == [route |-> "pending-requests", userId |-> caller]
           IN  IF role(caller) # "teacher"
                 THEN Refuse(p, r, Response(403, "Only teachers can view withdrawal requests"))
                 ELSE Begin(p, r, "pending_getPendingWithdrawalRequests")
        /\ UNCHANGED <<balance, transactions, requests, now, customActions, accounts>>

PendingGetPending(p) ==
    /\ pc[p] = "pending_getPendingWithdrawalRequests"
    /\ Reply(p, [status |-> 200, message |-> "requests",
                 body |-> getPendingWithdrawalRequests])
    /\ UNCHANGED <<balance, transactions, requests, now, customActions, accounts>>

GetStats(p, In) ==
    \E caller \in In.users :
        /\ LET r == [route |-> "stats", userId |-> caller]
           IN  IF role(caller) # "teacher"
                 THEN Refuse(p, r, Response(403, "Only teachers can view stats"))
                 ELSE Begin(p, r, "stats_getTotals")
        /\ UNCHANGED <<balance, transactions, requests, now, customActions, accounts>>

\* the four totals are read and sent back; they are not kept in the response
\* record of the model
StatsGetTotals(p) ==
    /\ pc[p] = "stats_getTotals"
    /\ Reply(p, Response(200, "stats"))
    /\ UNCHANGED <<balance, transactions, requests, now, customActions, accounts>>

(* ---------------------------------------------------------------------- *)
(* /api/custom-actions (GET, POST, DELETE /:id)                            *)
(* A row of custom_quick_actions keeps its place when it is deleted        *)
(* (present = FALSE): ids are serial and never given out twice.            *)
(* ---------------------------------------------------------------------- *)
ActionTypes == {"reward", "fine"}

\* storage.getCustomQuickActions(teacherId): ids of the teacher's rows
getCustomQuickActions(teacherId) ==
    {i \in 1..Len(customActions) :
        customActions[i].present /\ customActions[i].teacherId = teacherId}

GetCustomActions(p, In) ==
    \E caller \in In.users :
        /\ LET r == [route |-> "custom-actions", userId |-> caller]
           IN  IF role(caller) # "teacher"
                 THEN Refuse(p, r, Response(403, "Only teachers can view custom actions"))
                 ELSE Begin(p, r, "actions_getCustomQuickActions")
        /\ UNCHANGED <<balance, transactions, requests, now, customActions, accounts>>

ActionsGet(p) ==
    /\ pc[p] = "actions_getCustomQuickActions"
    /\ Reply(p, [status |-> 200, message |-> "actions",
                 body |-> getCustomQuickActions(req[p].userId)])
    /\ UNCHANGED <<balance, transactions, requests, now, customActions, accounts>>

CreateCustomAction(p, In) ==
    \E caller \in In.users, amount \in In.amounts, type \in ActionTypes :
        /\ Len(customActions) < MaxActions
        /\ LET r == [route |-> "create-custom-action", userId |-> caller,
                      amount |-> amount, type |-> type]
           IN  IF role(caller) # "teacher"
                 THEN Refuse(p, [route |-> "create-custom-action", userId |-> caller],
                             Response(403, "Only teachers can create custom actions"))
                 ELSE Begin(p, r, "actions_createCustomQuickAction")
        /\ UNCHANGED <<balance, transactions, requests, now, customActions, accounts>>

\* storage.createCustomQuickAction({...req.body, teacherId: userId})
ActionsCreate(p) ==
    /\ pc[p] = "actions_createCustomQuickAction"
    /\ IF IsNumeric(req[p].amount)
         THEN /\ customActions' = Append(customActions,
                    [teacherId |-> req[p].userId, amount |-> ToNumeric(req[p].amount),
                     type |-> req[p].type, present |-> TRUE])
              /\ Reply(p, Response(200, "action"))
         ELSE /\ UNCHANGED customActions
              /\ Reply(p, Response(500, "Failed to create custom action"))
    /\ UNCHANGED <<balance, transactions, requests, now, accounts>>

\* mutant: the role check of the delete route is left out
DeleteCustomActionNoRoleCheck(p, In) ==
    \E caller \in In.users, id \in In.ids :
        /\ Begin(p, [route |-> "delete-custom-action", userId |-> caller, id |-> id],
                 "actions_deleteCustomQuickAction")
        /\ UNCHANGED <<balance, transactions, requests, now, customActions, accounts>>

DeleteCustomAction(p, In) ==
    \E caller \in In.users, id \in In.ids :
        /\ LET r == [route |-> "delete-custom-action", userId |-> caller, id |-> id]
           IN  IF role(caller) # "teacher"
                 THEN Refuse(p, [route |-> "delete-custom-action", userId |-> caller],
                             Response(403, "Only teachers can delete custom actions"))
                 ELSE Begin(p, r, "actions_deleteCustomQuickAction")
        /\ UNCHANGED <<balance, transactions, requests, now, customActions, accounts>>

\* mutant: the row is deleted by id alone
deleteCustomQuickActionById(id, teacherId) ==
    customActions' = [i \in 1..Len(customActions) |->
        IF i = id
          THEN [customActions[i] EXCEPT !.present = FALSE]
          ELSE customActions[i]]

\* storage.deleteCustomQuickAction(id, teacherId):
\* DELETE ... WHERE id = :id AND teacher_id = :teacherId
deleteCustomQuickAction(id, teacherId) ==
    customActions' = [i \in 1..Len(customActions) |->
        IF i = id /\ customActions[i].teacherId = teacherId
          THEN [customActions[i] EXCEPT !.present = FALSE]
          ELSE customActions[i]]

ActionsDelete(p) ==
    /\ pc[p] = "actions_deleteCustomQuickAction"
    /\ deleteCustomQuickAction(req[p].id, req[p].userId)
    /\ Reply(p, Response(200, "Custom action deleted successfully"))
    /\ UNCHANGED <<balance, transactions, requests, now, accounts>>

(* ---------------------------------------------------------------------- *)
(* QuickActionsModal: a preset or custom reward or fine applied to the     *)
(* selected student through POST /api/adjust-balance                       *)
(* ---------------------------------------------------------------------- *)
\* the body quickActionMutation posts
quickActionBody(student, amount, type) ==
    [userId |-> student, amount |-> amount, description |-> "description", type |-> type]

\* handleQuickAction(amount, name, "add") for a reward, "subtract" for a fine
QuickActionType(kind) == IF kind = "reward" THEN "add" ELSE "subtract"

\* z.object({studentId, amount, description, type}).parse(req.body)
adjustBalanceSchemaParses(body) ==
    {"studentId", "amount", "description", "type"} \subseteq DOMAIN body

\* the teacher clicks a reward or a fine; the server handler runs up to its
\* first storage call on the account
QuickActionMutation(p, In) ==
    \E caller \in In.users, student \in In.users \cap Students,
       amount \in In.amounts, kind \in ActionTypes :
        /\ WithinBounds
        /\ LET body == quickActionBody(student, amount, QuickActionType(kind))
               r == [route |-> "quick-action", userId |-> caller, kind |-> kind,
                     student |-> student, amount |-> amount]
           IN  IF role(caller) # "teacher"
                 THEN Refuse(p, [route |-> "quick-action", userId |-> caller],
                             Response(403, "Only teachers can adjust balances"))
                 ELSE IF ~adjustBalanceSchemaParses(body)
                   THEN Refuse(p, r, Response(500, "Failed to adjust balance"))
                   ELSE IF role(body.studentId) # "student"
                     THEN Refuse(p, r, Response(404, "Student not found"))
                     ELSE Begin(p, [route |-> "quick-action", userId |-> caller,
                                    kind |-> kind, student |-> student,
                                    studentId |-> body.studentId, amount |-> body.amount,
                                    type |-> body.type], "adjust_getAccount")
        /\ UNCHANGED <<balance, transactions, requests, now, customActions, accounts>>

(* ---------------------------------------------------------------------- *)
(* DatabaseStorage.upsertUser, called when a user signs in                 *)
(* ---------------------------------------------------------------------- *)
\* a user who signs in for the first time; the role column defaults to student
NewStudents == {"s3"}

UpsertUser(p, In) ==
    \E userId \in In.users :
        /\ Len(accounts) < MaxAccounts
        /\ Begin(p, [route |-> "upsertUser", userId |-> userId], "upsert_insertUser")
        /\ UNCHANGED <<balance, transactions, requests, now, customActions, accounts>>

\* INSERT INTO users ... ON CONFLICT DO UPDATE ... RETURNING, then the role test
UpsertInsertUser(p) ==
    /\ pc[p] = "upsert_insertUser"
    /\ IF role(req[p].userId) = "student"
         THEN Goto(p, "upsert_getAccount", NoLoc)
         ELSE Reply(p, Response(200, "user"))
    /\ UNCHANGED <<balance, transactions, requests, now, customActions, accounts>>

\* const existingAccount = await this.getAccount(user.id)
UpsertGetAccount(p) ==
    /\ pc[p] = "upsert_getAccount"
    /\ IF HasAccount(req[p].userId)
         THEN Reply(p, Response(200, "user"))
         ELSE Goto(p, "upsert_createAccount", NoLoc)
    /\ UNCHANGED <<balance, transactions, requests, now, customActions, accounts>>

\* storage.createAccount({userId}): INSERT INTO accounts
createAccount(userId) == accounts' = Append(accounts, userId)

UpsertCreateAccount(p) ==
    /\ pc[p] = "upsert_createAccount"
    /\ createAccount(req[p].userId)
    /\ Reply(p, Response(200, "user"))
    /\ UNCHANGED <<balance, transactions, requests, now, customActions>>

(* ---------------------------------------------------------------------- *)
(* Persistence errors in the batch routes                                  *)
(* A storage call may reject (connection lost, statement refused).  Both   *)
(* batch handlers wrap their whole loop in one try/catch: the rejection    *)
(* leaves the loop and the catch block answers 500.                        *)
(* ---------------------------------------------------------------------- *)
PaycheckUpdateAccountBalanceThrows(p) ==
    /\ pc[p] = "paycheck_updateAccountBalance"
    /\ Reply(p, Response(500, "Failed to distribute paycheck"))
    /\ UNCHANGED <<balance, transactions, requests, now, customActions, accounts>>

RentUpdateAccountBalanceThrows(p) ==
    /\ pc[p] = "rent_updateAccountBalance"
    /\ Reply(p, Response(500, "Failed to collect rent"))
    /\ UNCHANGED <<balance, transactions, requests, now, customActions, accounts>>

(* ---------------------------------------------------------------------- *)
(* Specifications                                                          *)
(* ---------------------------------------------------------------------- *)
\* the routes that pay, charge and adjust
LedgerHandler(p, In) ==
    \/ AdjustBalance(p, In)
    \/ AdjustGetAccount(p)
    \/ AdjustUpdateAccountBalance(p)
    \/ AdjustCreateTransaction(p)
    \/ DistributePaycheck(p, In)
    \/ PaycheckGetAllStudents(p)
    \/ PaycheckUpdateAccountBalance(p)
    \/ PaycheckCreateTransaction(p)
    \/ CollectRent(p, In)
    \/ RentGetAllStudents(p)
    \/ RentUpdateAccountBalance(p)
    \/ RentCreateTransaction(p)

\* the withdrawal-request routes, and the adjustment that funds an account
WithdrawalHandler(p, In) ==
    \/ AdjustBalance(p, In)
    \/ AdjustGetAccount(p)
    \/ AdjustUpdateAccountBalance(p)
    \/ AdjustCreateTransaction(p)
    \/ CreateWithdrawalRequest(p, In)
    \/ CreateGetAccount(p)
    \/ CreateInsert(p)
    \/ PatchWithdrawalRequest(p, In)
    \/ PatchUpdate(p)
    \/ PatchGetPending(p)
    \/ PatchUpdateAccountBalance(p)
    \/ PatchCreateTransaction(p)

\* what the requests of a specification carry: their callers (and the users
\* they name), amount strings, status strings and request ids
LedgerInputs ==
    [users |-> Users, amounts |-> AmountInputs, statuses |-> StatusInputs, ids |-> RequestIds]

\* one teacher and one student, amount "1.00"
ConcurrentInputs ==
    [users |-> {"t1", "s1"}, amounts |-> { Text(0, "digits", 100) },
     statuses |-> {"approved", "denied", "pending"}, ids |-> {1}]

\* one request at a time
NextLedger == LedgerHandler("h1", LedgerInputs)
SpecLedger == Init /\ [][NextLedger]_vars

\* one batch request at a time, any of whose balance writes may be rejected;
\* amounts "1.00" and "2.00"
BatchFailureInputs ==
    [users |-> Users, amounts |-> { Text(0, "digits", 100), Text(0, "digits", 200) },
     statuses |-> StatusInputs, ids |-> RequestIds]
NextBatchFailure ==
    \/ LedgerHandler("h1", BatchFailureInputs)
    \/ PaycheckUpdateAccountBalanceThrows("h1")
    \/ RentUpdateAccountBalanceThrows("h1")
SpecBatchFailure == Init /\ [][NextBatchFailure]_vars

\* a batch request (h1) and adjust-balance requests (h2) at the same time,
\* their storage calls interleaved; amount "1.00"
BatchHandler(p, In) ==
    \/ DistributePaycheck(p, In)
    \/ PaycheckGetAllStudents(p)
    \/ PaycheckUpdateAccountBalance(p)
    \/ PaycheckCreateTransaction(p)
    \/ CollectRent(p, In)
    \/ RentGetAllStudents(p)
    \/ RentUpdateAccountBalance(p)
    \/ RentCreateTransaction(p)
AdjustHandler(p, In) ==
    \/ AdjustBalance(p, In)
    \/ AdjustGetAccount(p)
    \/ AdjustUpdateAccountBalance(p)
    \/ AdjustCreateTransaction(p)
BatchRaceInputs ==
    [users |-> {"t1", "s1"}, amounts |-> { Text(0, "digits", 100) },
     statuses |-> StatusInputs, ids |-> RequestIds]
NextBatchRace ==
    \/ BatchHandler("h1", BatchRaceInputs)
    \/ AdjustHandler("h2", BatchRaceInputs)
SpecBatchRace == Init /\ [][NextBatchRace]_vars

\* the routes that read, and the custom-action routes
ReadHandler(p, In) ==
    \/ GetTransactions(p, In)
    \/ TransactionsGetAccount(p)
    \/ TransactionsGetByAccount(p)
    \/ ListStudents(p, In)
    \/ StudentsGetAllStudents(p)
    \/ ListPendingRequests(p, In)
    \/ PendingGetPending(p)
    \/ GetStats(p, In)
    \/ StatsGetTotals(p)
    \/ GetCustomActions(p, In)
    \/ ActionsGet(p)
    \/ CreateCustomAction(p, In)
    \/ ActionsCreate(p)
    \/ DeleteCustomAction(p, In)
    \/ ActionsDelete(p)

\* the approval route alone
PatchHandler(p, In) ==
    \/ PatchWithdrawalRequest(p, In)
    \/ PatchUpdate(p)
    \/ PatchGetPending(p)
    \/ PatchUpdateAccountBalance(p)
    \/ PatchCreateTransaction(p)

\* every route of the server and the quick-action modal (h1), with approval
\* requests (h2) at the same time; amount "1.00"
ApiInputs ==
    [users |-> {"t1", "s1"}, amounts |-> { Text(0, "digits", 100) },
     statuses |-> {"approved", "pending"}, ids |-> {1}]
NextApi ==
    \/ LedgerHandler("h1", ApiInputs)
    \/ WithdrawalHandler("h1", ApiInputs)
    \/ ReadHandler("h1", ApiInputs)
    \/ QuickActionMutation("h1", ApiInputs)
    \/ PatchHandler("h2", ApiInputs)
SpecApi == Init /\ [][NextApi]_vars

\* the withdrawal-request routes with every status string (h1), and requests
\* that put a row back to pending (h2) at the same time; amount "1.00"
AnyStatusInputs ==
    [users |-> {"t1", "s1"}, amounts |-> { Text(0, "digits", 100) },
     statuses |-> StatusInputs, ids |-> RequestIds]
ReopenInputs ==
    [users |-> {"t1"}, amounts |-> { Text(0, "digits", 100) },
     statuses |-> {"pending"}, ids |-> {1}]
NextStatus ==
    \/ WithdrawalHandler("h1", AnyStatusInputs)
    \/ PatchHandler("h2", ReopenInputs)
SpecStatus == Init /\ [][NextStatus]_vars

\* the read routes and the custom-action routes, one request at a time,
\* called by either teacher or a student; amounts "1.00" and "abc"
ActionInputs ==
    [users |-> {"t1", "t2", "s1"},
     amounts |-> { Text(0, "digits", 100), Text(0, "junk", 0) },
     statuses |-> StatusInputs, ids |-> 1..(MaxActions + 1)]
NextActions == ReadHandler("h1", ActionInputs)
SpecActions == Init /\ [][NextActions]_vars

\* sign-ins of a teacher, of a student who has an account and of a new
\* student, two at a time
SignupHandler(p, In) ==
    \/ UpsertUser(p, In)
    \/ UpsertInsertUser(p)
    \/ UpsertGetAccount(p)
    \/ UpsertCreateAccount(p)
SignupInputs ==
    [users |-> {"t1", "s1"} \cup NewStudents, amounts |-> {},
     statuses |-> {}, ids |-> {}]
NextSignup == \E p \in Procs : SignupHandler(p, SignupInputs)
SpecSignup == Init /\ [][NextSignup]_vars

\* two requests at a time, their storage calls interleaved
NextConcurrent == \E p \in Procs : WithdrawalHandler(p, ConcurrentInputs)
SpecConcurrent == Init /\ [][NextConcurrent]_vars

(* ---------------------------------------------------------------------- *)
(* Properties                                                              *)
(* ---------------------------------------------------------------------- *)
Quiescent == \A p \in Procs : Free(p)

\* the transaction rows of account a, and the sum of their amounts
RowsOf(a) == {i \in 1..Len(transactions) : transactions[i].accountId = a}

RECURSIVE SumRows(_)
SumRows(I) ==
    IF I = {} THEN 0
    ELSE LET i == CHOOSE j \in I : TRUE
         IN  transactions[i].amount + SumRows(I \ {i})

LedgerSum(a) == SumRows(RowsOf(a))

\* handler p takes a step
Steps(p) == pc'[p] # pc[p] \/ req'[p] # req[p] \/ res'[p] # res[p]

\* C1: ledger reconciliation.  Starting from balance 0.00 and no transactions,
\* whenever every request has been answered, the amounts of the transaction
\* rows of each account sum to the account's stored balance (stated for the
\* balances that are numbers; a balance of NaN reconciles with nothing).
C1_LedgerReconciliation ==
    Quiescent =>
        \A s \in Students :
            isNaN(balance[s]) \/ balance[s] = LedgerSum(accountIdOf(s))

\* C2: an approved withdrawal request has been paid out.  Once the approving
\* request has been answered, every request row with status approved (and a
\* positive amount) has its withdrawal transaction of minus the request
\* amount on the request's account.
C2_ApprovalDeducts ==
    Quiescent =>
        \A i \in 1..Len(requests) :
            (requests[i].status = "approved" /\ requests[i].amount > 0) =>
                \E t \in RowsOf(requests[i].accountId) :
                    /\ transactions[t].type = "withdrawal"
                    /\ transactions[t].description = "Withdrawal: reason"
                    /\ transactions[t].amount = 0 - requests[i].amount

\* C3: the balance write and the transaction insert are one atomic unit.
\* No step changes an account's balance without inserting, in the same step,
\* the one transaction row of that account whose amount is the change, and no
\* step inserts a row of an account without changing its balance by the row's
\* amount.
C3_AtomicUnit ==
    [][\A s \in Students :
          (balance'[s] # balance[s] \/ RowsOf(accountIdOf(s))' # RowsOf(accountIdOf(s))) =>
              /\ Len(transactions') = Len(transactions) + 1
              /\ transactions'[Len(transactions')].accountId = accountIdOf(s)
              /\ balance'[s] = Plus(balance[s], transactions'[Len(transactions')].amount)]_vars

\* C4: every account balance is >= 0 in every reachable state (stated for the
\* balances that are numbers; NaN is not >= 0 either).
C4_BalanceNonNegative ==
    \A s \in Students : isNaN(balance[s]) \/ balance[s] >= 0

\* the signed change an adjust-balance handler has computed
AdjustDelta(p) == Minus(parseFloat(loc[p].newBalance), loc[p].currentBalance)

\* C5: two concurrent adjust-balance requests on one account lose no update.
\* When both handlers read the stored balance `old`, passed the check and
\* wrote their new balance, the stored balance is old + d1 + d2.
C5_NoLostUpdate ==
    \A p, q \in Procs :
        ( /\ p # q
          /\ pc[p] = "adjust_createTransaction"
          /\ pc[q] = "adjust_createTransaction"
          /\ req[p].studentId = req[q].studentId
          /\ loc[p].currentBalance = loc[q].currentBalance ) =>
            balance[req[p].studentId] =
                Plus(Plus(loc[p].currentBalance, AdjustDelta(p)), AdjustDelta(q))

\* C6: a withdrawal request is resolved once and terminally.  No step changes
\* the status, reviewer or review time of a request row whose status is
\* approved or denied.
C6_StatusTerminal ==
    [][\A i \in 1..Len(requests) :
          requests[i].status \in {"approved", "denied"} =>
              /\ requests'[i].status = requests[i].status
              /\ requests'[i].reviewedBy = requests[i].reviewedBy
              /\ requests'[i].reviewedAt = requests[i].reviewedAt]_vars

\* the withdrawal transactions that approvals of requests on account a inserted
ApprovalRows(a) ==
    {t \in RowsOf(a) : /\ transactions[t].type = "withdrawal"
                       /\ transactions[t].description = "Withdrawal: reason"}
RequestsOn(a) == {i \in 1..Len(requests) : requests[i].accountId = a}

\* C7: approving a request twice does not deduct twice.  Under every
\* interleaving, an account has at most one approval transaction per
\* withdrawal request made on it.
C7_NoDoubleDeduct ==
    \A a \in AccountIds : Cardinality(ApprovalRows(a)) <= Cardinality(RequestsOn(a))

\* C8: an approve or deny request on a request that is no longer pending is
\* answered with an error (AlreadyResolved) and changes no request row, no
\* balance and no transaction.
C8_AlreadyResolved ==
    [][\A p \in Procs :
          ( /\ pc[p] = "patch_updateWithdrawalRequest"
            /\ Steps(p)
            /\ req[p].status \in {"approved", "denied"}
            /\ req[p].id \in 1..Len(requests)
            /\ requests[req[p].id].status # "pending" ) =>
              /\ res'[p].status >= 400
              /\ store' = store]_vars

\* C9: approval re-validates the balance.  When an approve request is
\* processed for a pending request whose amount exceeds the account's balance,
\* it is answered with an error (InsufficientBalance), the request stays
\* pending and the balance is unchanged.
C9_ApprovalRevalidates ==
    [][\A p \in Procs :
          ( /\ pc[p] = "patch_updateWithdrawalRequest"
            /\ Steps(p)
            /\ req[p].status = "approved"
            /\ req[p].id \in 1..Len(requests)
            /\ requests[req[p].id].status = "pending"
            /\ Gt(requests[req[p].id].amount,
                  balance[userOf(requests[req[p].id].accountId)]) ) =>
              /\ res'[p].status >= 400
              /\ requests'[req[p].id].status = "pending"
              /\ balance' = balance]_vars

\* C10: adjust-balance subtract with amount > the account's current balance is
\* rejected.  The handler's step on the account it read answers 400, ends the
\* handler, and leaves every balance and the transaction log as they were.
C10_SubtractRejected ==
    [][\A p \in Procs :
          ( /\ pc[p] = "adjust_getAccount"
            /\ Steps(p)
            /\ req[p].type = "subtract"
            /\ Gt(parseFloat(req[p].amount), balance[req[p].studentId]) ) =>
              /\ res'[p] = Response(400, "Balance cannot be negative")
              /\ pc'[p] = "done"
              /\ balance' = balance
              /\ transactions' = transactions]_vars

\* a subtract of more than a positive balance has been answered 400
C10_Witness ==
    \E p \in Procs :
        /\ pc[p] = "done"
        /\ req[p].route = "adjust-balance"
        /\ res[p] = Response(400, "Balance cannot be negative")
        /\ req[p].type = "subtract"
        /\ balance[req[p].studentId] > 0
        /\ Gt(parseFloat(req[p].amount), balance[req[p].studentId])

(* ---------------------------------------------------------------------- *)
(* Properties of the batch routes and of input validation                  *)
(* ---------------------------------------------------------------------- *)
\* handler p sends its response in this step, after at least one storage call
Finishes(p) == ~Free(p) /\ pc'[p] = "done"

\* the amount string a request carries
AmountOf(r) == IF "body" \in DOMAIN r THEN r.body.amount ELSE r.amount

\* the student rows a batch handler iterates over: the result of its
\* getAllStudents() call, with each account's balance as read by that call
BatchStudents(p) ==
    IF pc[p] \in {"paycheck_getAllStudents", "rent_getAllStudents"}
      THEN getAllStudents
      ELSE loc[p].students

\* C11: a mutating endpoint rejects an amount that is unparsable, zero or
\* negative before any store write.  No step of a handler whose request
\* carries such an amount changes a balance, the transaction log or the
\* request table, and its response is an error.
C11_InvalidAmountRejected ==
    [][\A p \in Procs :
          ( /\ ~Free(p)
            /\ Steps(p)
            /\ req[p].route \in {"distribute-paycheck", "collect-rent",
                                 "adjust-balance", "withdrawal-requests"}
            /\ ~Gt(parseFloat(AmountOf(req[p])), 0) ) =>
              /\ store' = store
              /\ pc'[p] = "done" => res'[p].status >= 400]_vars

C13_RentRecordsActualDeduction ==
    [][\A p \in Procs :
          (pc[p] = "rent_createTransaction" /\ Steps(p)) =>
              LET student == loc[p].students[loc[p].i]
                  old == parseFloat(student.account.balance)
                  new == balance[student.id]
              IN  /\ Len(transactions') = Len(transactions) + 1
                  /\ transactions'[Len(transactions')].type = "rent"
                  /\ transactions'[Len(transactions')].accountId = student.account.id
                  /\ transactions'[Len(transactions')].amount = 0 - (old - new)]_vars

\* a rent row records less than the rent requested: 1.00 of a rent of 2.00
C13_Witness ==
    \E p \in Procs, t \in 1..Len(transactions) :
        /\ req[p].route = "collect-rent"
        /\ role(req[p].userId) = "teacher"
        /\ parseFloat(req[p].amount) = 200
        /\ transactions[t].type = "rent"
        /\ transactions[t].amount = 0 - 100

C15_PaycheckPaysEveryStudent ==
    [][\A p \in Procs :
          ( /\ req[p].route = "distribute-paycheck"
            /\ Finishes(p)
            /\ ~isNaN(parseFloat(req[p].amount)) ) =>
              LET students == BatchStudents(p)
                  N == Len(students)
                  A == parseFloat(req[p].amount)
              IN  /\ res'[p].status = 200
                  /\ res'[p].students = N
                  /\ \A j \in 1..N :
                        balance'[students[j].id] =
                            Plus(parseFloat(students[j].account.balance), A)
                  /\ Len(transactions') >= N
                  /\ \A j \in 1..N :
                        transactions'[Len(transactions') - N + j] =
                            [accountId |-> students[j].account.id, type |-> "paycheck",
                             amount |-> A, description |-> "Weekly Paycheck"]]_vars

\* a paycheck of 1.00 has been paid to two accounts that were at 0.00
C15_Witness ==
    \E p \in Procs :
        /\ pc[p] = "done"
        /\ req[p].route = "distribute-paycheck"
        /\ res[p].status = 200
        /\ parseFloat(req[p].amount) = 100
        /\ Len(transactions) = Len(StudentOrder)
        /\ \A s \in Students : balance[s] = 100

\* the balance a batch handler gives the account of a student row it read
BatchNewBalance(r, student) ==
    LET currentBalance == parseFloat(student.account.balance)
    IN  IF r.route = "distribute-paycheck"
          THEN ToNumeric(PaycheckNewBalance(currentBalance, parseFloat(r.amount)))
          ELSE IF Gt(currentBalance, 0)
            THEN ToNumeric(RentNewBalance(currentBalance, parseFloat(r.amount)))
            ELSE currentBalance

\* C16: a failure on one account does not block the rest of the batch.  When
\* a distribute-paycheck or collect-rent handler responds, every account of
\* the student list other than the one it was processing when a storage call
\* failed has received its balance update.
C16_BatchFailureIsolated ==
    [][\A p \in Procs :
          ( /\ req[p].route \in {"distribute-paycheck", "collect-rent"}
            /\ Finishes(p)
            /\ pc[p] \in {"paycheck_updateAccountBalance", "paycheck_createTransaction",
                          "rent_updateAccountBalance", "rent_createTransaction"} ) =>
              \A j \in 1..Len(loc[p].students) :
                  j # loc[p].i =>
                      balance'[loc[p].students[j].id] =
                          BatchNewBalance(req[p], loc[p].students[j])]_vars

\* C17: a batch operation's read-modify-write of an account is isolated.
\* When a distribute-paycheck or collect-rent handler writes the balance of
\* account X while no other request is in progress (so every adjust-balance
\* made on X since the batch read its student list has completed), the
\* balance written is the stored balance with the batch delta applied:
\* stored + A for a paycheck, max(0, stored - R) for a rent.
C17_BatchWriteIsolated ==
    [][\A p \in Procs :
          ( /\ pc[p] \in {"paycheck_updateAccountBalance", "rent_updateAccountBalance"}
            /\ Steps(p)
            /\ \A q \in Procs \ {p} : Free(q) ) =>
              LET student == loc[p].students[loc[p].i]
                  stored == [student EXCEPT
                                !.account.balance = NumericOut(balance[student.id])]
              IN  balance'[student.id] = BatchNewBalance(req[p], stored)]_vars


\* the routes only a teacher may call, and the route only a student may call
TeacherRoutes ==
    {"students", "pending-requests", "patch-withdrawal-request", "distribute-paycheck",
     "adjust-balance", "quick-action", "collect-rent", "stats", "custom-actions",
     "create-custom-action", "delete-custom-action"}
StudentRoutes == {"withdrawal-requests"}

\* request r comes from a caller whose role its route does not admit
WrongRole(r) ==
    \/ r.route \in TeacherRoutes /\ r.userId \notin Teachers
    \/ r.route \in StudentRoutes /\ r.userId \notin Students

\* handler p takes up a new request in this step
Arrives(p) == Free(p) /\ Steps(p)

\* C18: a request on a teacher-only route from a caller who is not a teacher,
\* and a create-withdrawal request from a caller who is not a student, is
\* answered 403 at once, and balances, transactions, withdrawal requests and
\* custom actions stay as they were; no handler is ever at work on a route
\* for a caller of the wrong role.
C18_RoleEnforced ==
    [][\A p \in Procs :
        /\ (Arrives(p) /\ WrongRole(req'[p])) =>
              /\ pc'[p] = "done"
              /\ res'[p].status = 403
              /\ store' = store
              /\ customActions' = customActions
        /\ ~Free(p)' => ~WrongRole(req'[p])]_vars

\* a student's request to delete a custom action that exists has been refused
C18_Witness ==
    /\ pc["h1"] = "done"
    /\ WrongRole(req["h1"])
    /\ res["h1"].status = 403
    /\ req["h1"].route = "delete-custom-action"
    /\ Len(customActions) > 0
    /\ customActions[1].present

\* the answer to a finished GET /api/transactions holds rows of the caller's
\* own account only
OwnRowsOnly(p) ==
    res[p].status = 200 =>
        \A i \in 1..Len(res[p].body) :
            res[p].body[i].accountId = accountIdOf(req[p].userId)

\* C19: fetching one's own transactions is for students only: the answer
\* never holds a transaction of another user's account, and a caller who is
\* not a student is answered 403.
C19_TransactionsStudentOnly ==
    \A p \in Procs :
        (pc[p] = "done" /\ req[p].route = "transactions") =>
            IF req[p].userId \in Students
              THEN OwnRowsOnly(p)
              ELSE res[p].status = 403

\* C20: a quick action a teacher applies to a student from the modal changes
\* that student's balance: a reward adds its amount and a fine subtracts it;
\* the only request that is turned down is a fine larger than the balance,
\* which leaves the balance as it was.
C20_QuickActionApplies ==
    [][\A p \in Procs :
        (/\ Steps(p)
         /\ pc'[p] = "done"
         /\ req'[p].route = "quick-action"
         /\ req'[p].userId \in Teachers) =>
            \/ /\ res'[p].status = 200
               /\ AdjustDelta(p) = IF req'[p].kind = "reward"
                                     THEN parseFloat(req'[p].amount)
                                     ELSE 0 - parseFloat(req'[p].amount)
            \/ /\ res'[p].status = 400
               /\ req'[p].kind = "fine"
               /\ Gt(parseFloat(req'[p].amount),
                     parseFloat(NumericOut(balance[req'[p].student])))
               /\ balance' = balance]_vars

(* ---------------------------------------------------------------------- *)
(* Properties of single adjustments, of the request table and of the log   *)
(* ---------------------------------------------------------------------- *)
\* C21: a successful adjust-balance add of amount A on balance B sets the
\* balance to B + A and appends one transaction of kind bonus with amount +A;
\* a successful subtract sets it to B - A and appends one transaction of kind
\* withdrawal with amount -A.  B is the balance the handler read, a number
\* (an account whose stored balance is NaN stays at NaN); the write
\* step stores B + A or B - A, and the step that answers 200 appends exactly
\* the one row and leaves the balance at the value written.
C21_AdjustApplies ==
    [][\A p \in Procs :
          LET s == req[p].studentId
              A == parseFloat(req[p].amount)
              signed == IF req[p].type = "add" THEN A ELSE 0 - A
          IN  /\ (pc[p] = "adjust_updateAccountBalance" /\ Steps(p)) =>
                    ((~isNaN(A) /\ ~isNaN(loc[p].currentBalance)) =>
                        /\ balance'[s] = loc[p].currentBalance + signed
                        /\ transactions' = transactions)
              /\ (pc[p] = "adjust_createTransaction" /\ Steps(p)
                    /\ res'[p].status = 200) =>
                    /\ ~isNaN(loc[p].currentBalance) =>
                            balance'[s] = loc[p].currentBalance + signed
                    /\ Len(transactions') = Len(transactions) + 1
                    /\ SubSeq(transactions', 1, Len(transactions)) = transactions
                    /\ LET row == transactions'[Len(transactions')]
                       IN  /\ row.accountId = accountIdOf(s)
                           /\ row.type = (IF req[p].type = "add" THEN "bonus"
                                                                 ELSE "withdrawal")
                           /\ row.amount = signed]_vars

\* a subtract of 1.00 from a balance of 2.00 has been answered 200: the
\* balance is 1.00 and the last row is a withdrawal of -1.00
C21_Witness ==
    \E p \in Procs :
        /\ pc[p] = "done"
        /\ req[p].route = "adjust-balance"
        /\ res[p].status = 200
        /\ req[p].type = "subtract"
        /\ parseFloat(req[p].amount) = 100
        /\ balance[req[p].studentId] = 100
        /\ Len(transactions) > 0
        /\ transactions[Len(transactions)].type = "withdrawal"
        /\ transactions[Len(transactions)].amount = 0 - 100

\* C22: denying a pending withdrawal request sets its status to denied,
\* changes no account balance and adds no transaction; the handler answers
\* 200 in the same step and makes no further storage call.
C22_DenyLeavesLedger ==
    [][\A p \in Procs :
          ( /\ pc[p] = "patch_updateWithdrawalRequest"
            /\ Steps(p)
            /\ req[p].status = "denied"
            /\ req[p].id \in 1..Len(requests)
            /\ requests[req[p].id].status = "pending" ) =>
              /\ requests'[req[p].id].status = "denied"
              /\ requests'[req[p].id].amount = requests[req[p].id].amount
              /\ requests'[req[p].id].accountId = requests[req[p].id].accountId
              /\ balance' = balance
              /\ transactions' = transactions
              /\ pc'[p] = "done"
              /\ res'[p].status = 200]_vars

\* a request of 1.00 on an account holding 1.00 has been denied: the balance
\* is still 1.00 and the account has no withdrawal row
C22_Witness ==
    \E p \in Procs :
        /\ pc[p] = "done"
        /\ req[p].route = "patch-withdrawal-request"
        /\ res[p].status = 200
        /\ req[p].status = "denied"
        /\ req[p].id \in 1..Len(requests)
        /\ requests[req[p].id].status = "denied"
        /\ requests[req[p].id].amount = 100
        /\ balance[userOf(requests[req[p].id].accountId)] = 100
        /\ ApprovalRows(requests[req[p].id].accountId) = {}

\* C23: in every reachable state the status of every withdrawal request is
\* one of pending, approved, denied, whatever status string approve/deny
\* requests carry in their body.
C23_StatusEnumerated ==
    \A i \in 1..Len(requests) : requests[i].status \in {"pending", "approved", "denied"}

\* C24: an approve/deny request naming a withdrawal-request id that does not
\* exist is answered with the NotFound outcome (404, not a success response)
\* and no step of its handler changes a balance, the transaction log or the
\* request table.
C24_MissingRequestNotFound ==
    [][\A p \in Procs :
          ( /\ ~Free(p)
            /\ Steps(p)
            /\ req[p].route = "patch-withdrawal-request"
            /\ req[p].status \in {"approved", "denied"}
            /\ req[p].id \notin 1..Len(requests) ) =>
              /\ store' = store
              /\ pc'[p] = "done" => res'[p].status = 404]_vars

\* C25: only the owning teacher can delete a custom quick action.  The delete
\* step of a request by teacher T leaves every action owned by another
\* teacher in the store, as it was; and a row leaves the store only in the
\* delete step of a request by its owner naming its id.
C25_OnlyOwnerDeletes ==
    [][\A i \in 1..Len(customActions) :
          /\ \A p \in Procs :
                ( /\ pc[p] = "actions_deleteCustomQuickAction"
                  /\ Steps(p)
                  /\ customActions[i].teacherId # req[p].userId ) =>
                    customActions'[i] = customActions[i]
          /\ (customActions[i].present /\ ~customActions'[i].present) =>
                \E p \in Procs :
                    /\ pc[p] = "actions_deleteCustomQuickAction"
                    /\ Steps(p)
                    /\ req[p].userId = customActions[i].teacherId
                    /\ req[p].id = i]_vars

\* a teacher's delete request naming the id of another teacher's action has
\* been answered and the action is still in the store
C25_Witness ==
    \E p \in Procs :
        /\ pc[p] = "done"
        /\ req[p].route = "delete-custom-action"
        /\ res[p].status = 200
        /\ req[p].userId \in Teachers
        /\ req[p].id \in 1..Len(customActions)
        /\ customActions[req[p].id].teacherId \in Teachers \ {req[p].userId}
        /\ customActions[req[p].id].present

\* C26: the transaction log is append-only and immutable.  Every step leaves
\* every existing row in its place with its account, kind and amount (and
\* description) as they were: the log after the step is the log before it,
\* or the log before it with one row appended.
C26_LogAppendOnly ==
    [][/\ Len(transactions') \in {Len(transactions), Len(transactions) + 1}
       /\ \A i \in 1..Len(transactions) : transactions'[i] = transactions[i]]_vars

\* the log holds two rows, the second appended after the first
C26_Witness ==
    /\ Len(transactions) = 2
    /\ \E p \in Procs : pc[p] = "done" /\ res[p].status = 200

\* the account rows of user u
AccountRowsOf(u) == {i \in 1..Len(accounts) : accounts[i] = u}

\* C27: every student user has at most one account row, also when two
\* upsertUser calls for the same new student interleave between the
\* existing-account check and the account insert.
C27_OneAccountPerStudent ==
    \A u \in Students \cup NewStudents : Cardinality(AccountRowsOf(u)) <= 1

\* C28: a withdrawal request created through create-withdrawal-request has
\* status pending and references the calling student's own account, whatever
\* accountId or status the request body carries; and no other step adds a row
\* to the request table.
C28_CreatedPendingOnOwnAccount ==
    [][Len(requests') # Len(requests) =>
          /\ Len(requests') = Len(requests) + 1
          /\ \E p \in Procs :
                /\ pc[p] = "create_createWithdrawalRequest"
                /\ Steps(p)
                /\ req[p].userId \in Students
                /\ requests'[Len(requests')].status = "pending"
                /\ requests'[Len(requests')].accountId = accountIdOf(req[p].userId)
                /\ requests'[Len(requests')].reviewedBy = "null"]_vars

\* s1 (account 1) has sent a body naming account 2 and status approved; the
\* row created for it is on account 1 and pending
C28_Witness ==
    \E p \in Procs :
        /\ pc[p] = "done"
        /\ req[p].route = "withdrawal-requests"
        /\ res[p].status = 200
        /\ req[p].userId = "s1"
        /\ "status" \in DOMAIN req[p].body
        /\ req[p].body.status = "approved"
        /\ req[p].body.accountId = 2
        /\ Len(requests) = 1
        /\ requests[1].accountId = 1
        /\ requests[1].status = "pending"

\* C29: create-withdrawal-request with an amount greater than the caller's
\* balance is answered 400 Insufficient balance and creates no request row;
\* and every request row is created with an amount that is at most the
\* balance its account holds at the moment the row is created.
C29_CreateWithinBalance ==
    [][/\ \A p \in Procs :
            ( /\ pc[p] = "create_getAccount"
              /\ Steps(p)
              /\ insertWithdrawalRequestSchemaParses(req[p].body)
              /\ Gt(parseFloat(req[p].body.amount), balance[req[p].userId]) ) =>
                /\ res'[p] = Response(400, "Insufficient balance")
                /\ pc'[p] = "done"
                /\ requests' = requests
       /\ Len(requests') > Len(requests) =>
            LET row == requests'[Len(requests')]
            IN  ~Gt(row.amount, balance[userOf(row.accountId)])]_vars

\* C30: collect-rent is idempotent once balances reach zero.  A collect-rent
\* with an amount R >= every balance leaves every balance at 0.00; and a
\* collect-rent with any positive amount that finds every balance at 0.00
\* changes no balance, creates no transaction and reports studentsAffected = 0.
C30_RentIdempotentAtZero ==
    [][\A p \in Procs :
          ( /\ ~Free(p)
            /\ Steps(p)
            /\ req[p].route = "collect-rent"
            /\ Gt(parseFloat(req[p].amount), 0) ) =>
              LET read == [j \in 1..Len(BatchStudents(p)) |->
                              parseFloat(BatchStudents(p)[j].account.balance)]
              IN  /\ ( /\ Finishes(p)
                       /\ \A j \in DOMAIN read :
                            /\ ~isNaN(read[j])
                            /\ read[j] >= 0
                            /\ read[j] <= parseFloat(req[p].amount) ) =>
                        \A s \in Students : balance'[s] = 0
                  /\ (\A j \in DOMAIN read : read[j] = 0) =>
                        /\ balance' = balance
                        /\ transactions' = transactions
                        /\ Finishes(p) =>
                              /\ res'[p].status = 200
                              /\ res'[p].studentsAffected = 0]_vars

\* a rent has taken an account to 0.00 (its row is the last of the log) and
\* a second rent of a positive amount has then reported studentsAffected = 0
C30_Witness ==
    \E p \in Procs :
        /\ pc[p] = "done"
        /\ req[p].route = "collect-rent"
        /\ res[p].status = 200
        /\ res[p].studentsAffected = 0
        /\ Gt(parseFloat(req[p].amount), 0)
        /\ \A s \in Students : balance[s] = 0
        /\ Len(transactions) > 0
        /\ transactions[Len(transactions)].type = "rent"

====
